---------------------------- MODULE Spec2Model ----------------------------
(***************************************************************************)
(* A model of the chess robot bridge np425/chess_opencv:                   *)
(*   communication_py.py  the command codec (form_command,                 *)
(*                        off_board_square) and the bit-serial link        *)
(*                        (issue_command, wait_for_signal);                *)
(*   movement.py          reflect_move / move_piece, identify_move and     *)
(*                        iter_reset_board.                                *)
(*                                                                         *)
(* Each component has its own specification over its own variables; the    *)
(* variables of the other components stay at Idle.                         *)
(*   SpecCodec     form_command applied to bounded inputs                  *)
(*   SpecLink      issue_command bit by bit, then wait_for_signal poll by  *)
(*                 poll, against an acknowledgment line that goes low at   *)
(*                 a chosen instant and stays low                          *)
(*   SpecReset     repeated iter_reset_board calls on a small board, the   *)
(*                 caller applying each successful relocation              *)
(*   SpecReflect   reflect_move on chess positions                         *)
(*   SpecIdentify  identify_move on pairs of snapshots                     *)
(***************************************************************************)
EXTENDS Integers, Sequences, FiniteSets, TLC

VARIABLES
    \* ---- CommandCodec (SpecCodec)
    c_args,          \* the arguments of form_command
    c_command,       \* its return value, or NoCommand before the call
    \* ---- PhysicalLink (SpecLink)
    link_pc,         \* "start" | "bits" | "wait" | "done"
    command,         \* the argument of issue_command
    bit,             \* the loop variable of issue_command
    wire,            \* DATA values present at each CLOCK rising edge, in order
    ack_at,          \* the instant (ticks after start_time) RESPONSE goes low, or Never
    elapsed,         \* time.time() - start_time, in ticks
    link_response,   \* the return value of issue_command, or Idle
    \* ---- BoardReconciler (SpecReset)
    board,           \* RealBoard `board`: [occ, offsets, perspective]
    expected_board,  \* RealBoard `expected_board`: [occ, perspective]
    shared,          \* TRUE when board.chess_board is the object expected_board.chess_board
    reset_pc,        \* "call" | "apply" | "failed" | "raised" | "done" | "pushed"
    reset_result,    \* what the last iter_reset_board call did
    calls,           \* number of iter_reset_board calls so far
    mismatch0,       \* number of mismatched squares before the first call
    \* ---- MoveTranslator (SpecReflect)
    rm_board,        \* the chess position reflect_move is given
    rm_move,         \* the move it is given
    rm_kind,         \* the kind of that move
    rm_result,       \* what reflect_move did, or Idle
    \* ---- MoveIdentifier (SpecIdentify)
    prev_board,      \* the previous snapshot
    current_board,   \* the current snapshot
    made_move,       \* the legal move that led from one to the other, or NoMove
    hand_moves,      \* number of pieces moved by hand between the snapshots
    id_pc,           \* "snapshot" | "played" | "disturbed" | "identified"
    id_result,       \* the return value of identify_move (NoMove for None)
    \* ---- the relocation primitive (SpecMove)
    mv_board,        \* RealBoard `board`: [occ, offsets, perspective]
    mv_args,         \* from_square, to_square, prev_response, and the board before
    mv_result,       \* what move_piece did
    \* ---- the slot assignment (SpecSlot)
    s_args,          \* two pieces and a perspective
    s_slots,         \* the slots off_board_square gives them, or Idle
    \* ---- the GUI and its threads (SpecGui)
    gui_screen,      \* "level" | "color" | "start" | "game" | "over"
    game_depth,      \* game.depth: <<>> until a level is chosen, then <<level>>
    game_perspective,\* the colour given to game.reset_board: <<>>, then <<colour>>
    game_thread,     \* the global game_thread: NoThread for None, or <<i>> for engine thread i
    game_running,    \* the Event game_running
    game_stopped,    \* the Event game_stopped
    engine_pc,       \* per engine thread: where chess_engine_thread stands
    worker_pc        \* per engine thread: where the _stop_game worker it started stands

codecVars == <<c_args, c_command>>
linkVars == <<link_pc, command, bit, wire, ack_at, elapsed, link_response>>
resetVars == <<board, expected_board, shared, reset_pc, reset_result, calls, mismatch0>>
reflectVars == <<rm_board, rm_move, rm_kind, rm_result>>
identifyVars == <<prev_board, current_board, made_move, hand_moves, id_pc, id_result>>
moveVars == <<mv_board, mv_args, mv_result>>
slotVars == <<s_args, s_slots>>
guiVars == <<gui_screen, game_depth, game_perspective, game_thread, game_running,
            game_stopped, engine_pc, worker_pc>>
vars == <<codecVars, linkVars, resetVars, reflectVars, identifyVars, moveVars, slotVars,
         guiVars>>

Idle == "idle"

\* no command formed yet
NoCommand == <<>>
IdleCodec == c_args = Idle /\ c_command = NoCommand
IdleLink ==
    /\ link_pc = Idle /\ command = Idle /\ bit = Idle /\ wire = Idle
    /\ ack_at = Idle /\ elapsed = Idle /\ link_response = Idle
IdleReset ==
    /\ board = Idle /\ expected_board = Idle /\ shared = Idle /\ reset_pc = Idle
    /\ reset_result = Idle /\ calls = Idle /\ mismatch0 = Idle
IdleReflect == rm_board = Idle /\ rm_move = Idle /\ rm_kind = Idle /\ rm_result = Idle
IdleIdentify ==
    /\ prev_board = Idle /\ current_board = Idle /\ made_move = Idle
    /\ hand_moves = Idle /\ id_pc = Idle /\ id_result = Idle
IdleMove == mv_board = Idle /\ mv_args = Idle /\ mv_result = Idle
IdleSlot == s_args = Idle /\ s_slots = Idle
IdleGui ==
    /\ gui_screen = Idle /\ game_depth = Idle /\ game_perspective = Idle
    /\ game_thread = Idle /\ game_running = Idle /\ game_stopped = Idle
    /\ engine_pc = Idle /\ worker_pc = Idle

Min(S) == CHOOSE x \in S : \A y \in S : x <= y
Abs(x) == IF x < 0 THEN -x ELSE x

(***************************************************************************)
(* python-chess values used by the sources.                                *)
(***************************************************************************)
WHITE == "WHITE"
BLACK == "BLACK"
\* `not color`
Opponent(color) == IF color = WHITE THEN BLACK ELSE WHITE
PAWN == "PAWN"
KNIGHT == "KNIGHT"
BISHOP == "BISHOP"
ROOK == "ROOK"
QUEEN == "QUEEN"
KING == "KING"
PIECE_TYPES == {PAWN, KNIGHT, BISHOP, ROOK, QUEEN, KING}
COLORS == {WHITE, BLACK}

\* chess.Piece(piece_type, color); piece_at returns None on an empty square
Piece(piece_type, color) == [piece_type |-> piece_type, color |-> color]
None == [piece_type |-> "None", color |-> "None"]
PIECES == {Piece(t, c) : t \in PIECE_TYPES, c \in COLORS}

\* chess.SQUARES and the twelve off-board slots
SQUARES == 0..63
SLOTS == (-12)..(-1)

(***************************************************************************)
(* communication_py.py: the codec                                          *)
(***************************************************************************)
RESPONSE_TIMEOUT == 0
RESPONSE_SUCCESS == 1
\* movement.py compares what issue_command returns with robot.COMMAND_SUCCESS
COMMAND_SUCCESS == RESPONSE_SUCCESS
COMMAND_FAILURE == RESPONSE_TIMEOUT

pieces_white_perspective(piece_type, color) ==
    CASE piece_type = ROOK   /\ color = WHITE -> -1
      [] piece_type = BISHOP /\ color = WHITE -> -2
      [] piece_type = KNIGHT /\ color = WHITE -> -3
      [] piece_type = QUEEN  /\ color = WHITE -> -4
      [] piece_type = KING   /\ color = WHITE -> -5
      [] piece_type = PAWN   /\ color = WHITE -> -6
      [] piece_type = ROOK   /\ color = BLACK -> -7
      [] piece_type = BISHOP /\ color = BLACK -> -8
      [] piece_type = KNIGHT /\ color = BLACK -> -9
      [] piece_type = QUEEN  /\ color = BLACK -> -10
      [] piece_type = KING   /\ color = BLACK -> -11
      [] piece_type = PAWN   /\ color = BLACK -> -12

\* an off_board_square that moves every slot six down for perspective black
off_board_square_six_down(piece_type, color, perspective) ==
    LET piece_value == pieces_white_perspective(piece_type, color)
    IN  IF perspective = BLACK THEN piece_value - 6 ELSE piece_value

off_board_square(piece_type, color, perspective) ==
    LET piece_value == pieces_white_perspective(piece_type, color)
    IN  IF perspective = BLACK
        THEN IF piece_value >= -6 THEN piece_value - 6 ELSE piece_value + 6
        ELSE piece_value

\* Offsets are fractions num/OffsetDen. int(max(min(offset * 100, 100), -100)):
\* scaled, clamped, then truncated toward zero as Python's int() does.
OffsetDen == 8
\* a conversion to percent that does not clamp
ScalePercent(num) ==
    IF num >= 0 THEN (num * 100) \div OffsetDen ELSE -(((-num) * 100) \div OffsetDen)

ClampPercent(num) ==
    LET scaled == num * 100   \* in units of 1/OffsetDen
        hi == 100 * OffsetDen
        clamped == IF scaled > hi THEN hi ELSE IF scaled < -hi THEN -hi ELSE scaled
    IN  IF clamped >= 0 THEN clamped \div OffsetDen ELSE -((-clamped) \div OffsetDen)

\* `if 0 >= square <= 63: square = 63 - square` is Python's chained comparison
\* (0 >= square) and (square <= 63)
MirrorSquare(square) ==
    IF 0 >= square /\ square <= 63 THEN 63 - square ELSE square

\* The 32-bit command (from << 24) | (ox << 16) | (oy << 8) | to, each field masked
\* with 0xFF, kept as its four bytes <<bits 31..24, 23..16, 15..8, 7..0>>.
form_command(from_square, to_square, offset_x, offset_y, perspective) ==
    LET ox == ClampPercent(offset_x)
        oy == ClampPercent(offset_y)
        f == IF perspective = BLACK THEN MirrorSquare(from_square) ELSE from_square
        t == IF perspective = BLACK THEN MirrorSquare(to_square) ELSE to_square
        x == IF perspective = BLACK THEN -ox ELSE ox
        y == IF perspective = BLACK THEN -oy ELSE oy
    IN  <<f % 256, x % 256, y % 256, t % 256>>

\* bit k (0 = least significant) of a command: (command >> k) & 1
CommandBit(cmd, k) == (cmd[4 - (k \div 8)] \div (2 ^ (k % 8))) % 2

(***************************************************************************)
(* SpecCodec: form_command on every pair of squares and slots              *)
(***************************************************************************)
\* offsets tried, as numerators over OffsetDen: centred, inside the square, on the
\* edge (8/8 = 1.0) and beyond it (clamped)
OffsetPairs == {<<0, 0>>, <<3, -3>>, <<-8, 1>>, <<9, -9>>}

InitCodec ==
    /\ c_args \in [from_square : SLOTS \cup SQUARES, to_square : SLOTS \cup SQUARES,
                   offset : OffsetPairs, perspective : COLORS]
    /\ c_command = NoCommand
    /\ IdleLink /\ IdleReset /\ IdleReflect /\ IdleIdentify /\ IdleMove /\ IdleSlot /\ IdleGui

FormCommand ==
    /\ c_command = NoCommand
    /\ c_command' = form_command(c_args.from_square, c_args.to_square,
                                 c_args.offset[1], c_args.offset[2], c_args.perspective)
    /\ UNCHANGED <<c_args, linkVars, resetVars, reflectVars, identifyVars, moveVars, slotVars, guiVars>>

NextCodec == FormCommand
SpecCodec == InitCodec /\ [][NextCodec]_vars

\* C17: for perspective white and all from, to in -12..63 form_command returns a
\* value in 0..2^32-1 (four bytes) whose bits 31..24 are from as a two's-complement
\* byte, bits 23..16 offset-x scaled to percent and clamped to -100..100 as a
\* two's-complement byte, bits 15..8 offset-y scaled and clamped the same way,
\* and bits 7..0 to as a two's-complement byte.
C17_WhiteCommandLayout ==
    (c_command # NoCommand /\ c_args.perspective = WHITE) =>
        LET Byte(v) == IF v >= 0 THEN v ELSE 256 + v
            Clamped(num) ==
                IF num * 100 > 100 * OffsetDen THEN 100 * OffsetDen
                ELSE IF num * 100 < -100 * OffsetDen THEN -100 * OffsetDen
                ELSE num * 100
            IsPercentOf(pc, num) ==
                /\ pc \in (-100)..100
                /\ Abs(pc * OffsetDen - Clamped(num)) < OffsetDen
                /\ pc * Clamped(num) >= 0
        IN  /\ Len(c_command) = 4
            /\ \A i \in 1..4 : c_command[i] \in 0..255
            /\ c_command[1] = Byte(c_args.from_square)
            /\ \E pc \in (-100)..100 :
                   IsPercentOf(pc, c_args.offset[1]) /\ c_command[2] = Byte(pc)
            /\ \E pc \in (-100)..100 :
                   IsPercentOf(pc, c_args.offset[2]) /\ c_command[3] = Byte(pc)
            /\ c_command[4] = Byte(c_args.to_square)

\* from slot -12 to h8 with offsets beyond the square on both sides
C17_Witness ==
    /\ c_command # NoCommand
    /\ c_args.perspective = WHITE
    /\ c_args.from_square = -12
    /\ c_args.to_square = 63
    /\ c_args.offset = <<9, -9>>
    /\ c_command = <<244, 100, 156, 63>>

\* C7: with perspective black, form_command packs every square S in 0..63 as 63-S
\* and negates both offsets, so the command equals the white-perspective command
\* of the mirrored squares and negated offsets; a slot (-12..-1) is packed
\* unmirrored, as its own two's-complement byte.
C7_BlackMirrorsRealSquaresOnly ==
    (c_command # NoCommand /\ c_args.perspective = BLACK) =>
        LET f == c_args.from_square
            t == c_args.to_square
            mf == IF f \in SQUARES THEN 63 - f ELSE f
            mt == IF t \in SQUARES THEN 63 - t ELSE t
        IN  c_command = form_command(mf, mt, -c_args.offset[1], -c_args.offset[2], WHITE)

(***************************************************************************)
(* communication_py.py: the link.  Time is counted in ticks, TicksPerTenth *)
(* to a tenth of a second; the DELAY_* constants are in tenths.            *)
(***************************************************************************)
TicksPerTenth == 2
DELAY_TIMEOUT_MIN_S == 1
DELAY_TIMEOUT_MAX_S == 100
DELAY_WAIT_S == 1
MIN_TICKS == DELAY_TIMEOUT_MIN_S * TicksPerTenth
MAX_TICKS == DELAY_TIMEOUT_MAX_S * TicksPerTenth
WAIT_TICKS == DELAY_WAIT_S * TicksPerTenth
\* time.sleep(DELAY_WAIT_S) and the loop's own work take DELAY_WAIT_S plus at most
\* this many ticks
MaxJitter == 1
\* range(16)
BITS_SENT == 16

\* instants at which RESPONSE may go low (it then stays low); the last ones lie
\* beyond the last poll, i.e. the line is never seen low
\* an instant no call lasts until: RESPONSE never goes low
Never == MAX_TICKS + WAIT_TICKS + MaxJitter + 1
AckTimes == 0..(MAX_TICKS + WAIT_TICKS) \cup {Never}

\* commands handed to issue_command
CommandSamples ==
    {form_command(f, t, o[1], o[2], p) :
        f \in {-12, 12}, t \in {63}, o \in {<<3, -3>>}, p \in COLORS}

\* a shift counted from the top of the 32-bit command instead
bit_value_from_bit31(cmd, b) == CommandBit(cmd, 31 - b)

\* bit_value = (command >> (15 - bit)) & 1
bit_value(cmd, b) == CommandBit(cmd, 15 - b)

\* line_resp.get_value(): active low
line_resp(t, ack) == IF t >= ack THEN 0 ELSE 1

InitLink ==
    /\ link_pc = "bits"
    /\ command \in CommandSamples
    /\ bit = 0
    /\ wire = <<>>
    /\ ack_at = 0
    /\ elapsed = 0
    /\ link_response = Idle
    /\ IdleCodec /\ IdleReset /\ IdleReflect /\ IdleIdentify /\ IdleMove /\ IdleSlot /\ IdleGui

\* one turn of issue_command's loop: set DATA, pulse CLOCK
SendBit ==
    /\ link_pc = "bits"
    /\ bit < BITS_SENT
    /\ wire' = Append(wire, bit_value(command, bit))
    /\ bit' = bit + 1
    /\ UNCHANGED <<link_pc, command, ack_at, elapsed, link_response>>
    /\ UNCHANGED <<codecVars, resetVars, reflectVars, identifyVars, moveVars, slotVars, guiVars>>

\* the loop is over: wait_for_signal takes start_time
StartWait ==
    /\ link_pc = "bits"
    /\ bit = BITS_SENT
    /\ link_pc' = "wait"
    /\ elapsed' = 0
    /\ ack_at' \in AckTimes
    /\ UNCHANGED <<command, bit, wire, link_response>>
    /\ UNCHANGED <<codecVars, resetVars, reflectVars, identifyVars, moveVars, slotVars, guiVars>>

\* a wait_for_signal that reports success when the time is up
Poll_timeout_succeeds ==
    /\ link_pc = "wait"
    /\ IF elapsed < MAX_TICKS /\ line_resp(elapsed, ack_at) # 0
       THEN /\ \E j \in 0..MaxJitter : elapsed' = elapsed + WAIT_TICKS + j
            /\ UNCHANGED <<link_pc, link_response>>
       ELSE /\ link_response' = IF elapsed < MIN_TICKS THEN RESPONSE_TIMEOUT
                                ELSE RESPONSE_SUCCESS
            /\ link_pc' = "done"
            /\ UNCHANGED elapsed
    /\ UNCHANGED <<command, bit, wire, ack_at>>
    /\ UNCHANGED <<codecVars, resetVars, reflectVars, identifyVars, moveVars, slotVars, guiVars>>

\* one turn of wait_for_signal's loop, or its exit
Poll ==
    /\ link_pc = "wait"
    /\ IF elapsed < MAX_TICKS
       THEN IF line_resp(elapsed, ack_at) = 0
            THEN /\ link_response' = IF elapsed < MIN_TICKS
                                     THEN RESPONSE_TIMEOUT
                                     ELSE RESPONSE_SUCCESS
                 /\ link_pc' = "done"
                 /\ UNCHANGED elapsed
            ELSE /\ \E j \in 0..MaxJitter : elapsed' = elapsed + WAIT_TICKS + j
                 /\ UNCHANGED <<link_pc, link_response>>
       ELSE /\ link_response' = RESPONSE_TIMEOUT
            /\ link_pc' = "done"
            /\ UNCHANGED elapsed
    /\ UNCHANGED <<command, bit, wire, ack_at>>
    /\ UNCHANGED <<codecVars, resetVars, reflectVars, identifyVars, moveVars, slotVars, guiVars>>

NextLink == SendBit \/ StartWait \/ Poll
SpecLink == InitLink /\ [][NextLink]_vars

\* the thread that called issue_command keeps running: every sleep returns
SpecLinkLive == SpecLink /\ WF_vars(NextLink)

\* C18 as stated: if RESPONSE never goes low, issue_command returns Failure and the
\* poll ends no later than DELAY_TIMEOUT_MAX_S after it started.
C18_EndsWithinMax ==
    (link_pc = "done" /\ ack_at = Never) =>
        /\ link_response = RESPONSE_TIMEOUT
        /\ elapsed <= MAX_TICKS

\* C18: if RESPONSE never goes low, issue_command returns Failure; the line is
\* sampled only while less than DELAY_TIMEOUT_MAX_S has elapsed since polling
\* started, so the wait ends within one sampling interval after that; every call
\* terminates, and the command is clocked out once (16 cycles, no retransmission).
C18_NoAckTimesOut ==
    /\ []((link_pc = "done" /\ ack_at = Never) =>
            /\ link_response = RESPONSE_TIMEOUT
            /\ elapsed >= MAX_TICKS
            /\ elapsed < MAX_TICKS + WAIT_TICKS + MaxJitter)
    /\ [][(link_pc = "wait" /\ elapsed' # elapsed) => elapsed < MAX_TICKS]_vars
    /\ [][link_pc = "wait" => (wire' = wire /\ Len(wire) = BITS_SENT)]_vars
    /\ <>(link_pc = "done")

\* the line stayed high: the call ended with a timeout after the last sleep
C18_Witness ==
    /\ link_pc = "done"
    /\ ack_at = Never
    /\ link_response = RESPONSE_TIMEOUT
    /\ elapsed > MAX_TICKS

\* the eight bits of a byte, most significant first
ByteBits(b) == [i \in 1..8 |-> (b \div (2 ^ (8 - i))) % 2]

C8_EarlyAckFails ==
    (link_pc = "done" /\ ack_at < MIN_TICKS) => link_response = RESPONSE_TIMEOUT

\* C9: an acknowledgment that first goes low at MIN_TIMEOUT <= t <= MAX_TIMEOUT and
\* stays low makes send return Success.
C9_AckInWindowSucceeds ==
    (link_pc = "done" /\ MIN_TICKS <= ack_at /\ ack_at <= MAX_TICKS)
        => link_response = RESPONSE_SUCCESS

(***************************************************************************)
(* movement.py: move_piece.  The link is a sequence of answers: the k-th   *)
(* command issued during one call of reflect_move or iter_reset_board gets *)
(* answers[k].  A relocation is logged as                                  *)
(*   [from_square, to_square, perspective, response].                      *)
(***************************************************************************)
RESPONSES == {COMMAND_SUCCESS, COMMAND_FAILURE}
\* what the link can answer to the commands of one reflect_move call
MaxAnswers == 3
ANSWERS == [1..MaxAnswers -> RESPONSES]
Answer(answers, k) == IF k \in DOMAIN answers THEN answers[k] ELSE COMMAND_FAILURE

\* a move_piece that issues its command whatever the previous response was
move_piece_unconditional(cmds, answers, perspective, from_square, to_square, prev_response) ==
    LET response == Answer(answers, Len(cmds) + 1)
    IN  [cmds |-> Append(cmds, [from_square |-> from_square, to_square |-> to_square,
                                perspective |-> perspective, response |-> response]),
         response |-> response]

\* move_piece(board, from_square, to_square, prev_response): the commands issued so
\* far and the response returned
move_piece(cmds, answers, perspective, from_square, to_square, prev_response) ==
    IF prev_response = COMMAND_SUCCESS
    THEN LET response == Answer(answers, Len(cmds) + 1)
         IN  [cmds |-> Append(cmds, [from_square |-> from_square, to_square |-> to_square,
                                     perspective |-> perspective, response |-> response]),
              response |-> response]
    ELSE [cmds |-> cmds, response |-> prev_response]

(***************************************************************************)
(* movement.py: the offsets move_piece leaves behind.  The offset table of *)
(* a RealBoard maps each real square to a pair (in units of 1/OffsetDen);  *)
(* SQUARE_CENTER is the centred value.                                     *)
(***************************************************************************)
SQUARE_CENTER == <<0, 0>>
Displaced == <<3, -3>>
set_offset(offsets, square, value) == [offsets EXCEPT ![square] = value]

\* a move_piece that centres the endpoints whatever the link answered
move_piece_offsets_any_response(offsets, from_square, to_square, prev_response, response) ==
    IF prev_response = COMMAND_SUCCESS
    THEN LET o1 == IF 0 <= from_square /\ from_square <= 63
                   THEN set_offset(offsets, from_square, SQUARE_CENTER) ELSE offsets
         IN  IF 0 <= to_square /\ to_square <= 63
             THEN set_offset(o1, to_square, SQUARE_CENTER) ELSE o1
    ELSE offsets

\* lines 60, 70-76: the offset table after move_piece, given the link's response
move_piece_offsets(offsets, from_square, to_square, prev_response, response) ==
    IF prev_response = COMMAND_SUCCESS /\ response = COMMAND_SUCCESS
    THEN LET o1 == IF 0 <= from_square /\ from_square <= 63
                   THEN set_offset(offsets, from_square, SQUARE_CENTER) ELSE offsets
         IN  IF 0 <= to_square /\ to_square <= 63
             THEN set_offset(o1, to_square, SQUARE_CENTER) ELSE o1
    ELSE offsets

(***************************************************************************)
(* movement.py: iter_reset_board, on a board of NumSquares squares.        *)
(* A RealBoard is [occ, perspective]; occ maps each square to a piece or   *)
(* None.  The dicts current_positions and expected_positions are functions *)
(* whose domain is the set of keys; they are built in ascending square     *)
(* order and every loop over them runs before any insertion, so iteration  *)
(* order is ascending square order.                                        *)
(***************************************************************************)
NumSquares == 3
RESET_SQUARES == 0..(NumSquares - 1)
\* the pieces that occur in the layouts tried
RESET_PIECES == {Piece(PAWN, WHITE), Piece(ROOK, BLACK)}
MaxCalls == 6
\* what the link can answer to the commands of one iter_reset_board call
MaxResetAnswers == 1
RESET_ANSWERS == [1..MaxResetAnswers -> RESPONSES]

RECURSIVE Sorted(_)
Sorted(S) == IF S = {} THEN <<>> ELSE <<Min(S)>> \o Sorted(S \ {Min(S)})

\* board.piece_at(square); a slot holds no piece of the occupancy table
piece_at(b, square) == IF square \in DOMAIN b.occ THEN b.occ[square] ELSE None

Values(d) == {d[k] : k \in DOMAIN d}
Pop(d, key) == [k \in DOMAIN d \ {key} |-> d[k]]
Put(d, key, value) == [k \in DOMAIN d \cup {key} |-> IF k = key THEN value ELSE d[k]]

\* lines 216-228: the mappings computed afresh by every call
ResetFrame(b, e) ==
    LET cur0 == {sq \in RESET_SQUARES : piece_at(b, sq) # None}
        exp0 == {sq \in RESET_SQUARES : piece_at(e, sq) # None}
        correctly_placed == {sq \in exp0 : piece_at(b, sq) = piece_at(e, sq)}
        cur == cur0 \ correctly_placed
        exp == exp0 \ correctly_placed
    IN  [current_positions |-> [sq \in cur |-> piece_at(b, sq)],
         expected_positions |-> [sq \in exp |-> piece_at(e, sq)],
         empty_squares |-> Sorted({sq \in RESET_SQUARES : sq \notin cur /\ sq \notin exp}),
         cmds |-> <<>>,
         response |-> COMMAND_SUCCESS,
         returned |-> FALSE,
         raised |-> FALSE,
         pass |-> 0]

\* a move_piece_and_update after which the pass goes on when the relocation failed
move_piece_and_update_no_abort(st, b, answers, start_square, end_square, pass) ==
    LET mp == move_piece(st.cmds, answers, b.perspective, start_square, end_square,
                         COMMAND_SUCCESS)
    IN  [st EXCEPT !.cmds = mp.cmds, !.response = mp.response, !.pass = pass,
                   !.returned = (mp.response = COMMAND_SUCCESS)]

\* lines 231-243, followed by the `return response, False` of the calling pass;
\* current_positions.pop(start_square) raises KeyError when start_square is no key
move_piece_and_update(st, b, answers, start_square, end_square, pass) ==
    LET piece == piece_at(b, start_square)
        mp == move_piece(st.cmds, answers, b.perspective, start_square, end_square,
                         COMMAND_SUCCESS)
        cp == Put(Pop(st.current_positions, start_square), end_square, piece)
        ep == IF end_square \in DOMAIN st.expected_positions
                 /\ st.expected_positions[end_square] = piece
              THEN Pop(st.expected_positions, end_square)
              ELSE st.expected_positions
    IN  IF mp.response # COMMAND_SUCCESS
        THEN [st EXCEPT !.cmds = mp.cmds, !.response = mp.response,
                        !.returned = TRUE, !.pass = pass]
        ELSE IF start_square \notin DOMAIN st.current_positions
        THEN [st EXCEPT !.cmds = mp.cmds, !.raised = TRUE, !.pass = pass]
        ELSE [st EXCEPT !.cmds = mp.cmds, !.response = COMMAND_SUCCESS,
                        !.current_positions = cp, !.expected_positions = ep,
                        !.returned = TRUE, !.pass = pass]

\* the first pass without its `return response, False`
first_pass_no_return(st, b, answers) ==
    LET wanted == {sq \in DOMAIN st.expected_positions :
                      st.expected_positions[sq] \in Values(st.current_positions)}
        square == Min(wanted)
        start_square == Min({sq \in DOMAIN st.current_positions :
                                st.current_positions[sq] = st.expected_positions[square]})
    IN  IF st.returned \/ st.raised \/ wanted = {}
        THEN st
        ELSE [move_piece_and_update(st, b, answers, start_square, square, 1)
                  EXCEPT !.returned = FALSE]

\* lines 245-251: direct placement
first_pass(st, b, answers) ==
    LET wanted == {sq \in DOMAIN st.expected_positions :
                      st.expected_positions[sq] \in Values(st.current_positions)}
        square == Min(wanted)
        start_square == Min({sq \in DOMAIN st.current_positions :
                                st.current_positions[sq] = st.expected_positions[square]})
    IN  IF st.returned \/ st.raised \/ wanted = {}
        THEN st
        ELSE move_piece_and_update(st, b, answers, start_square, square, 1)

\* lines 253-259: clear an obstruction onto the first of empty_squares
second_pass(st, b, answers) ==
    LET unneeded == {sq \in DOMAIN st.current_positions :
                        st.current_positions[sq] \notin Values(st.expected_positions)}
    IN  IF st.returned \/ st.raised \/ unneeded = {} \/ st.empty_squares = <<>>
        THEN st
        ELSE move_piece_and_update(
                 [st EXCEPT !.empty_squares = Tail(st.empty_squares)],
                 b, answers, Min(unneeded), Head(st.empty_squares), 2)

\* lines 261-271: supply from a temporary spot or from the off-board slot
third_pass(st, b, answers) ==
    LET square == Min(DOMAIN st.expected_positions)
        piece == st.expected_positions[square]
        spots == {sq \in DOMAIN st.current_positions : st.current_positions[sq] = piece}
        origin_square == IF spots # {}
                         THEN Min(spots)
                         ELSE off_board_square(piece.piece_type, piece.color, WHITE)
    IN  IF st.returned \/ st.raised \/ DOMAIN st.expected_positions = {}
        THEN st
        ELSE move_piece_and_update(st, b, answers, origin_square, square, 3)

\* an iter_reset_board whose last line returns the flag False
iter_reset_board_flag_false(b, e, answers) ==
    LET st == third_pass(second_pass(first_pass(ResetFrame(b, e), b, answers),
                                     b, answers), b, answers)
    IN  [cmds |-> st.cmds, response |-> st.response, done |-> FALSE,
         raised |-> st.raised, pass |-> IF st.returned \/ st.raised THEN st.pass ELSE 4]

\* iter_reset_board(board, expected_board): what the call did.
\*   cmds      the relocations issued, in order
\*   response  the status returned (when the call returned)
\*   done      the flag returned
\*   raised    the call ended in an exception instead of returning
\*   pass      the pass that relocated (1, 2, 3), or 4 for lines 273-276
iter_reset_board(b, e, answers) ==
    LET st == third_pass(second_pass(first_pass(ResetFrame(b, e), b, answers),
                                     b, answers), b, answers)
    IN  IF st.returned \/ st.raised
        THEN [cmds |-> st.cmds, response |-> st.response, done |-> FALSE,
              raised |-> st.raised, pass |-> st.pass]
        ELSE [cmds |-> st.cmds, response |-> COMMAND_SUCCESS, done |-> TRUE,
              raised |-> FALSE, pass |-> 4]

(***************************************************************************)
(* SpecReset: the caller's loop around iter_reset_board.  A call that      *)
(* returns Success and not Done is followed by the caller applying the     *)
(* relocation to `board` (source vacated, destination holds the piece). A  *)
(* call that returns Failure or raises ends the loop: a retry would start  *)
(* from the same two layouts.                                              *)
(***************************************************************************)
LAYOUTS == [RESET_SQUARES -> RESET_PIECES \cup {None}]
NoResult == [cmds |-> <<>>, response |-> COMMAND_SUCCESS, done |-> FALSE,
             raised |-> FALSE, pass |-> 0]
Mismatched(b, e) == {sq \in RESET_SQUARES : b.occ[sq] # e.occ[sq]}

\* the piece parked in an off-board slot (white perspective)
SlotPiece(slot) ==
    CHOOSE p \in PIECES : off_board_square(p.piece_type, p.color, WHITE) = slot

\* every piece stands off-centre before the reconciliation
InitialOffsets == [sq \in RESET_SQUARES |-> Displaced]

\* the offset table after the relocations of one call (move_piece, lines 70-76)
RECURSIVE OffsetsAfter(_, _)
OffsetsAfter(offsets, cmds) ==
    IF cmds = <<>> THEN offsets
    ELSE OffsetsAfter(move_piece_offsets(offsets, Head(cmds).from_square,
                                         Head(cmds).to_square, COMMAND_SUCCESS,
                                         Head(cmds).response),
                      Tail(cmds))

InitReset ==
    /\ board \in [occ : LAYOUTS, offsets : {InitialOffsets}, perspective : COLORS]
    /\ expected_board \in [occ : LAYOUTS, offsets : {InitialOffsets}, perspective : COLORS]
    /\ shared = FALSE
    /\ reset_pc = "call"
    /\ reset_result = NoResult
    /\ calls = 0
    /\ mismatch0 = Cardinality(Mismatched(board, expected_board))
    /\ IdleCodec /\ IdleLink /\ IdleReflect /\ IdleIdentify /\ IdleMove /\ IdleSlot /\ IdleGui

IterResetCall ==
    /\ reset_pc = "call"
    /\ calls < MaxCalls
    /\ \E answers \in RESET_ANSWERS :
         LET r == iter_reset_board(board, expected_board, answers)
         IN  /\ reset_result' = r
             /\ calls' = calls + 1
             /\ IF r.done
                THEN \* lines 273-274: board takes expected_board's chess_board object
                     /\ board' = [occ |-> expected_board.occ,
                                  offsets |-> board.offsets,
                                  perspective |-> expected_board.perspective]
                     /\ shared' = TRUE
                     /\ reset_pc' = "done"
                ELSE /\ board' = [board EXCEPT !.offsets = OffsetsAfter(board.offsets, r.cmds)]
                     /\ UNCHANGED shared
                     /\ reset_pc' = IF r.raised THEN "raised"
                                    ELSE IF r.response = COMMAND_SUCCESS THEN "apply"
                                    ELSE "failed"
    /\ UNCHANGED <<expected_board, mismatch0>>
    /\ UNCHANGED <<codecVars, linkVars, reflectVars, identifyVars, moveVars, slotVars, guiVars>>

\* the caller records the relocation that succeeded
ApplyRelocation ==
    /\ reset_pc = "apply"
    /\ LET c == reset_result.cmds[Len(reset_result.cmds)]
           piece == IF c.from_square \in RESET_SQUARES
                    THEN board.occ[c.from_square]
                    ELSE SlotPiece(c.from_square)
           vacated == IF c.from_square \in RESET_SQUARES
                      THEN [board.occ EXCEPT ![c.from_square] = None]
                      ELSE board.occ
       IN  board' = [board EXCEPT !.occ = [vacated EXCEPT ![c.to_square] = piece]]
    /\ reset_pc' = "call"
    /\ UNCHANGED <<expected_board, shared, reset_result, calls, mismatch0>>
    /\ UNCHANGED <<codecVars, linkVars, reflectVars, identifyVars, moveVars, slotVars, guiVars>>

\* after Done the caller plays on: a move is pushed on board.chess_board, taking
\* the piece on from_square to to_square. board.chess_board is the object that
\* expected_board.chess_board names when `shared` (line 273), so the push is
\* then seen through expected_board as well.
PushAfterDone ==
    /\ reset_pc = "done"
    /\ \E from_square \in RESET_SQUARES :
         \E to_square \in RESET_SQUARES \ {from_square} :
            /\ board.occ[from_square] # None
            /\ LET pushed == [board.occ EXCEPT ![from_square] = None,
                                               ![to_square] = board.occ[from_square]]
               IN  /\ board' = [board EXCEPT !.occ = pushed]
                   /\ expected_board' = IF shared
                                        THEN [expected_board EXCEPT !.occ = pushed]
                                        ELSE expected_board
    /\ reset_pc' = "pushed"
    /\ UNCHANGED <<shared, reset_result, calls, mismatch0>>
    /\ UNCHANGED <<codecVars, linkVars, reflectVars, identifyVars, moveVars, slotVars, guiVars>>

NextReset == IterResetCall \/ ApplyRelocation \/ PushAfterDone
SpecReset == InitReset /\ [][NextReset]_vars

\* C12: if a relocation attempted by a call of iter_reset_board fails, it is the
\* last command of the call, the call returns Failure with Done false (it does
\* not raise), and occupancy, perspective and offsets of both board and
\* expected_board are as before the call.
C12_FailedRelocationAbortsCall ==
    [][(/\ calls' = calls + 1
        /\ \E i \in 1..Len(reset_result'.cmds) :
               reset_result'.cmds[i].response = COMMAND_FAILURE)
       => /\ reset_result'.cmds[Len(reset_result'.cmds)].response = COMMAND_FAILURE
          /\ \A i \in 1..(Len(reset_result'.cmds) - 1) :
                 reset_result'.cmds[i].response = COMMAND_SUCCESS
          /\ Len(reset_result'.cmds) = 1
          /\ reset_result'.response = COMMAND_FAILURE
          /\ ~reset_result'.done
          /\ ~reset_result'.raised
          /\ board' = board
          /\ expected_board' = expected_board]_vars

\* a later call whose relocation, attempted by the second pass, failed
C12_Witness ==
    /\ reset_pc = "failed"
    /\ calls > 1
    /\ reset_result.pass = 2
    /\ Len(reset_result.cmds) = 1
    /\ reset_result.cmds[1].response = COMMAND_FAILURE
    /\ ~reset_result.done

\* target squares whose piece is not there yet
UnmatchedTarget(b, e) ==
    {sq \in RESET_SQUARES : e.occ[sq] # None /\ b.occ[sq] # e.occ[sq]}
\* misplaced pieces that no unmatched target square needs
UnneededCurrent(b, e) ==
    {sq \in RESET_SQUARES :
        /\ b.occ[sq] # None
        /\ b.occ[sq] # e.occ[sq]
        /\ b.occ[sq] \notin {e.occ[t] : t \in UnmatchedTarget(b, e)}}

\* C19: with each successful relocation applied to the current layout before the
\* next call, a successful call that is not Done strictly reduces the number of
\* unmatched target squares (first and third pass) or, when it clears an
\* obstruction (second pass), reduces the number of unmatched current squares
\* holding an unneeded piece without increasing the unmatched target squares.
C19_EachCallMakesProgress ==
    [][reset_pc = "apply" =>
          LET targets == Cardinality(UnmatchedTarget(board, expected_board))
              targets_after == Cardinality(UnmatchedTarget(board', expected_board'))
              unneeded == Cardinality(UnneededCurrent(board, expected_board))
              unneeded_after == Cardinality(UnneededCurrent(board', expected_board'))
          IN  IF reset_result.pass = 2
              THEN unneeded_after < unneeded /\ targets_after <= targets
              ELSE targets_after < targets]_vars

\* C20: when iter_reset_board clears an obstruction (second pass), the destination
\* of the relocation is a free square: it holds no piece in the current layout (in
\* particular no correctly placed piece) and no unmatched target square needs it.
C20_ObstructionGoesToFreeSquare ==
    (reset_pc \in {"apply", "failed"} /\ reset_result.pass = 2) =>
        LET destination == reset_result.cmds[1].to_square
        IN  /\ board.occ[destination] = None
            /\ destination \notin UnmatchedTarget(board, expected_board)

\* C21: when the third pass finds no matching piece on the board, the call issues
\* one relocation from the needed piece's off-board slot to the unmatched target
\* square and, when the link reports Success, returns (Success, Done false) as a
\* status value, without raising.
C21_SupplyFromStorageReturns ==
    (calls > 0 /\ reset_result.pass = 3 /\ Len(reset_result.cmds) >= 1
        /\ reset_result.cmds[1].from_square \in SLOTS) =>
        /\ Len(reset_result.cmds) = 1
        /\ reset_result.cmds[1].to_square \in RESET_SQUARES
        /\ reset_result.cmds[1].response = COMMAND_SUCCESS =>
               /\ ~reset_result.raised
               /\ reset_result.response = COMMAND_SUCCESS
               /\ ~reset_result.done

C24_DestinationIsEmpty ==
    (reset_pc \in {"apply", "failed", "raised"}) =>
        \A i \in 1..Len(reset_result.cmds) :
            reset_result.cmds[i].to_square \in RESET_SQUARES =>
                board.occ[reset_result.cmds[i].to_square] = None

\* C25: a call of iter_reset_board returns Done=true only if, at the time of the
\* call, the occupancy of board equals that of expected_board on every square,
\* for any layouts, a completely full board with an empty target included.
C25_DoneOnlyWhenLayoutsEqual ==
    [][(calls' = calls + 1 /\ reset_result'.done)
       => board.occ = expected_board.occ]_vars

\* C27: after iter_reset_board has reported Done, board and expected_board stay
\* independent layouts: a move pushed on board afterwards does not change the
\* occupancy of expected_board.
C27_PushLeavesTargetAlone ==
    [][(reset_pc = "done" /\ reset_pc' = "pushed")
       => expected_board'.occ = expected_board.occ]_vars

\* the number of calls a reconciliation may take per initially mismatched square
CallFactor == 4

\* C1: when every relocation succeeds and is applied before the next call, the
\* calls reach Done after at most CallFactor calls per initially mismatched
\* square: the loop is never about to make a further call beyond that number.
C1_DoneWithinBoundedCalls ==
    reset_pc \in {"call", "apply"} => calls <= CallFactor * mismatch0

\* C2: a call of iter_reset_board issues at most one relocation command, and none
\* when it reports Done, whatever the layouts and the link's answers.
C2_AtMostOneRelocationPerCall ==
    calls > 0 =>
        /\ Len(reset_result.cmds) <= 1
        /\ reset_result.done => Len(reset_result.cmds) = 0

C2_Witness ==
    /\ calls > 1
    /\ Len(reset_result.cmds) = 1
    /\ reset_result.cmds[1].response = COMMAND_FAILURE
    /\ reset_result.pass = 3

(***************************************************************************)
(* The chess engine the sources consume (python-chess): a chess.Board is   *)
(*   [pieces, turn, ep_square, castling]                                   *)
(* pieces maps SQUARES to a piece or None, ep_square is the square behind  *)
(* a pawn that has just advanced two squares (NO_SQUARE otherwise) and     *)
(* castling is the set of corner squares whose rook may still castle.  A   *)
(* chess.Move is [from_square, to_square, promotion].                      *)
(***************************************************************************)
NO_SQUARE == Min(SLOTS) - 1
NO_PROMOTION == "None"
Move(from_square, to_square) ==
    [from_square |-> from_square, to_square |-> to_square, promotion |-> NO_PROMOTION]
PromotionMove(from_square, to_square, promotion) ==
    [from_square |-> from_square, to_square |-> to_square, promotion |-> promotion]
\* identify_move's None, castle_rook_move's None
NoMove == Move(NO_SQUARE, NO_SQUARE)

square_file(square) == square % 8
square_rank(square) == square \div 8
Sq(file, rank) == rank * 8 + file

A1 == 0
C1 == 2
D1 == 3
F1 == 5
G1 == 6
H1 == 7
A8 == 56
C8 == 58
D8 == 59
F8 == 61
G8 == 62
H8 == 63

\* chess.Board.is_en_passant
Board_is_en_passant(b, move) ==
    /\ b.ep_square = move.to_square
    /\ b.pieces[move.from_square].piece_type = PAWN
    /\ Abs(move.to_square - move.from_square) \in {7, 9}
    /\ b.pieces[move.to_square] = None

\* chess.Board.is_capture: an enemy piece on either end of the move, or en passant
Board_is_capture(b, move) ==
    \/ b.pieces[move.from_square].color = Opponent(b.turn)
    \/ b.pieces[move.to_square].color = Opponent(b.turn)
    \/ Board_is_en_passant(b, move)

\* chess.Board.is_castling: a king that moves more than one file, or onto a rook
\* of the side to move
Board_is_castling(b, move) ==
    /\ b.pieces[move.from_square].piece_type = KING
    /\ \/ Abs(square_file(move.from_square) - square_file(move.to_square)) > 1
       \/ b.pieces[move.to_square] = Piece(ROOK, b.turn)

(***************************************************************************)
(* movement.py: the helpers of reflect_move and identify_move              *)
(***************************************************************************)
\* a castle_rook_move that answers with the king-side rook for every castling
castle_rook_move_king_side(b, king_move) ==
    IF b.pieces[king_move.from_square].piece_type = KING /\ Board_is_castling(b, king_move)
    THEN IF square_rank(king_move.to_square) = 0 THEN Move(H1, F1) ELSE Move(H8, F8)
    ELSE NoMove

\* lines 175-194
castle_rook_move(b, king_move) ==
    IF b.pieces[king_move.from_square].piece_type = KING /\ Board_is_castling(b, king_move)
    THEN CASE king_move.to_square = G1 -> Move(H1, F1)
           [] king_move.to_square = C1 -> Move(A1, D1)
           [] king_move.to_square = G8 -> Move(H8, F8)
           [] king_move.to_square = C8 -> Move(A8, D8)
           [] OTHER -> NoMove
    ELSE NoMove

\* an en_passant_captured that takes every capture to travel up the board
en_passant_captured_upward(move) == move.to_square - 8

\* lines 197-201
en_passant_captured(move) ==
    LET direction == IF move.to_square > move.from_square THEN -8 ELSE 8
    IN  move.to_square + direction

\* lines 203-207: the module's own is_en_passant(board, move)
is_en_passant(b, move) ==
    /\ b.pieces[move.from_square].piece_type = PAWN
    /\ Abs(move.from_square - move.to_square) \in {7, 9}
    /\ b.pieces[move.to_square] = None

(***************************************************************************)
(* The rules of chess, as far as they decide which moves are legal: the    *)
(* legal moves are the inputs of reflect_move and the moves a player can   *)
(* have made between two snapshots.                                        *)
(***************************************************************************)
Sign(x) == IF x > 0 THEN 1 ELSE IF x < 0 THEN -1 ELSE 0
FileDiff(f, t) == square_file(t) - square_file(f)
RankDiff(f, t) == square_rank(t) - square_rank(f)
Orthogonal(f, t) == f # t /\ (FileDiff(f, t) = 0 \/ RankDiff(f, t) = 0)
Diagonal(f, t) == f # t /\ Abs(FileDiff(f, t)) = Abs(RankDiff(f, t))
Distance(f, t) ==
    IF Abs(FileDiff(f, t)) > Abs(RankDiff(f, t))
    THEN Abs(FileDiff(f, t)) ELSE Abs(RankDiff(f, t))
\* the squares strictly between two squares of one line
Between(f, t) ==
    {f + k * (8 * Sign(RankDiff(f, t)) + Sign(FileDiff(f, t))) : k \in 1..(Distance(f, t) - 1)}
ClearPath(pieces, f, t) == \A sq \in Between(f, t) : pieces[sq] = None
Forward(color) == IF color = WHITE THEN 8 ELSE -8

\* the piece on f attacks square t
Attacks(pieces, f, t) ==
    LET p == pieces[f]
    IN  CASE p.piece_type = KNIGHT ->
                 {Abs(FileDiff(f, t)), Abs(RankDiff(f, t))} = {1, 2}
          [] p.piece_type = KING -> f # t /\ Distance(f, t) = 1
          [] p.piece_type = ROOK -> Orthogonal(f, t) /\ ClearPath(pieces, f, t)
          [] p.piece_type = BISHOP -> Diagonal(f, t) /\ ClearPath(pieces, f, t)
          [] p.piece_type = QUEEN ->
                 (Orthogonal(f, t) \/ Diagonal(f, t)) /\ ClearPath(pieces, f, t)
          [] p.piece_type = PAWN ->
                 Abs(FileDiff(f, t)) = 1 /\ RankDiff(f, t) = Sign(Forward(p.color))
          [] OTHER -> FALSE

Attacked(pieces, square, by_color) ==
    \E f \in SQUARES : pieces[f].color = by_color /\ Attacks(pieces, f, square)

InCheck(pieces, color) ==
    \E k \in SQUARES : pieces[k] = Piece(KING, color) /\ Attacked(pieces, k, Opponent(color))

\* a legal castling move is a king's move of two files along its home rank
IsCastle(b, m) ==
    /\ b.pieces[m.from_square].piece_type = KING
    /\ Abs(FileDiff(m.from_square, m.to_square)) = 2
CastleRookFrom(m) ==
    IF m.to_square > m.from_square THEN m.from_square + 3 ELSE m.from_square - 4
CastleRookTo(m) ==
    IF m.to_square > m.from_square THEN m.from_square + 1 ELSE m.from_square - 1
IsEnPassant(b, m) ==
    /\ b.pieces[m.from_square].piece_type = PAWN
    /\ FileDiff(m.from_square, m.to_square) # 0
    /\ b.pieces[m.to_square] = None

\* chess.Board.push: the occupancy after the move
Push(b, m) ==
    LET p == b.pieces[m.from_square]
        placed == IF m.promotion = NO_PROMOTION THEN p ELSE Piece(m.promotion, p.color)
        moved == [b.pieces EXCEPT ![m.from_square] = None, ![m.to_square] = placed]
    IN  IF IsCastle(b, m)
        THEN [moved EXCEPT ![CastleRookFrom(m)] = None,
                           ![CastleRookTo(m)] = Piece(ROOK, p.color)]
        ELSE IF IsEnPassant(b, m)
        THEN [moved EXCEPT ![m.to_square - Forward(p.color)] = None]
        ELSE moved

PseudoLegal(b, m) ==
    LET f == m.from_square
        t == m.to_square
        p == b.pieces[f]
        target == b.pieces[t]
        home == IF p.color = WHITE THEN 0 ELSE 7
        last == IF p.color = WHITE THEN 7 ELSE 0
    IN  /\ f # t
        /\ p.color = b.turn
        /\ target.color # p.color
        /\ target.piece_type # KING
        /\ (m.promotion # NO_PROMOTION) <=> (p.piece_type = PAWN /\ square_rank(t) = last)
        /\ m.promotion \in {NO_PROMOTION, QUEEN, ROOK, BISHOP, KNIGHT}
        /\ CASE p.piece_type = PAWN ->
                  \/ t = f + Forward(p.color) /\ target = None
                  \/ /\ square_rank(f) = (IF p.color = WHITE THEN 1 ELSE 6)
                     /\ t = f + 2 * Forward(p.color)
                     /\ target = None
                     /\ b.pieces[f + Forward(p.color)] = None
                  \/ Attacks(b.pieces, f, t) /\ target # None
                  \/ /\ Attacks(b.pieces, f, t)
                     /\ target = None
                     /\ t = b.ep_square
                     /\ b.pieces[t - Forward(p.color)] = Piece(PAWN, Opponent(p.color))
             [] p.piece_type = KING ->
                  \/ Attacks(b.pieces, f, t)
                  \/ /\ f = Sq(4, home)
                     /\ t \in {Sq(6, home), Sq(2, home)}
                     /\ CastleRookFrom(m) \in b.castling
                     /\ b.pieces[CastleRookFrom(m)] = Piece(ROOK, p.color)
                     /\ ClearPath(b.pieces, f, CastleRookFrom(m))
                     /\ \A sq \in {f, CastleRookTo(m), t} :
                            ~Attacked(b.pieces, sq, Opponent(p.color))
             [] OTHER -> Attacks(b.pieces, f, t)

Legal(b, m) == PseudoLegal(b, m) /\ ~InCheck(Push(b, m), b.pieces[m.from_square].color)

\* the moves worth trying in a position
CandidateMoves(b) ==
    {PromotionMove(f, t, pr) :
        f \in {sq \in SQUARES : b.pieces[sq].color = b.turn},
        t \in SQUARES,
        pr \in {NO_PROMOTION, QUEEN, ROOK, BISHOP, KNIGHT}}
LegalMoves(b) == {m \in CandidateMoves(b) : Legal(b, m)}

\* the kind of a legal move
MoveKind(b, m) ==
    CASE IsCastle(b, m) -> "castling"
      [] IsEnPassant(b, m) -> "en_passant"
      [] m.promotion # NO_PROMOTION /\ b.pieces[m.to_square] # None -> "promotion_capture"
      [] m.promotion # NO_PROMOTION -> "promotion"
      [] b.pieces[m.to_square] # None -> "capture"
      [] OTHER -> "normal"

(***************************************************************************)
(* The positions tried.  Each is a legal position (the side that is not to *)
(* move is not in check); all of its legal moves are tried.                *)
(***************************************************************************)
MakePieces(placement) ==
    [sq \in SQUARES |->
        IF \E pl \in placement : pl[1] = sq
        THEN (CHOOSE pl \in placement : pl[1] = sq)[2]
        ELSE None]
MakeBoard(placement, turn, ep_square, castling) ==
    [pieces |-> MakePieces(placement), turn |-> turn, ep_square |-> ep_square,
     castling |-> castling]

\* kings and rooks at home, with or without a piece in the way of castling
CastlePositions ==
    {MakeBoard({<<Sq(4, 0), Piece(KING, WHITE)>>, <<A1, Piece(ROOK, WHITE)>>,
                <<H1, Piece(ROOK, WHITE)>>, <<Sq(4, 7), Piece(KING, BLACK)>>,
                <<A8, Piece(ROOK, BLACK)>>, <<H8, Piece(ROOK, BLACK)>>} \cup extras,
               turn, NO_SQUARE, {A1, H1, A8, H8}) :
        extras \in SUBSET {<<Sq(1, 0), Piece(KNIGHT, WHITE)>>,
                           <<Sq(5, 7), Piece(BISHOP, BLACK)>>},
        turn \in COLORS}

\* a pawn beside an enemy pawn that has just advanced two squares
EnPassantFiles == {1, 4}
EnPassantPositions ==
    {LET rank == IF c = WHITE THEN 4 ELSE 3
     IN  MakeBoard({<<Sq(4, 0), Piece(KING, WHITE)>>, <<Sq(4, 7), Piece(KING, BLACK)>>,
                    <<Sq(f, rank), Piece(PAWN, c)>>,
                    <<Sq(f + side, rank), Piece(PAWN, Opponent(c))>>},
                   c, Sq(f + side, rank) + Forward(c), {}) :
        c \in COLORS, f \in EnPassantFiles, side \in {-1, 1}}

\* a pawn one step from promotion, with or without enemy pieces to capture
PromotionFiles == {1, 4}
PromotionPositions ==
    {LET rank == IF c = WHITE THEN 6 ELSE 1
         last == IF c = WHITE THEN 7 ELSE 0
     IN  MakeBoard({<<Sq(0, 2), Piece(KING, WHITE)>>, <<Sq(7, 5), Piece(KING, BLACK)>>,
                    <<Sq(f, rank), Piece(PAWN, c)>>}
                   \cup {<<Sq(f + v[1], last), Piece(v[2], Opponent(c))>> : v \in victims},
                   c, NO_SQUARE, {}) :
        c \in COLORS, f \in PromotionFiles,
        victims \in SUBSET {<<-1, KNIGHT>>, <<1, ROOK>>}}

\* pieces of every type with quiet moves, captures and a double pawn advance
PiecePositions ==
    {MakeBoard({<<Sq(0, 2), Piece(KING, WHITE)>>, <<Sq(7, 5), Piece(KING, BLACK)>>,
                <<Sq(3, 3), Piece(KNIGHT, WHITE)>>, <<Sq(2, 1), Piece(BISHOP, WHITE)>>,
                <<Sq(4, 1), Piece(PAWN, WHITE)>>, <<Sq(4, 5), Piece(PAWN, BLACK)>>,
                <<Sq(3, 7), Piece(QUEEN, BLACK)>>, <<Sq(6, 6), Piece(PAWN, BLACK)>>},
               turn, NO_SQUARE, {}) :
        turn \in COLORS}

Positions ==
    {b \in CastlePositions \cup EnPassantPositions \cup PromotionPositions
           \cup PiecePositions :
        ~InCheck(b.pieces, Opponent(b.turn))}

(***************************************************************************)
(* movement.py: reflect_move.  The RealBoard is the chess position plus    *)
(* its perspective.  The result is                                         *)
(*   [cmds, response, raised]: the relocations issued, the status returned *)
(* and whether the call ended in an exception instead.                     *)
(***************************************************************************)
\* a capture_step that parks the captured piece in the slot of the capturing piece
capture_step_mover_slot(st, b, move, answers) ==
    LET mover == b.pieces[move.from_square]
        off_board_place == off_board_square(mover.piece_type, mover.color, WHITE)
        mp == move_piece(st.cmds, answers, b.perspective, move.to_square,
                         off_board_place, st.response)
    IN  IF st.raised \/ ~Board_is_capture(b, move)
        THEN st
        ELSE IF b.pieces[move.to_square] = None
        THEN [st EXCEPT !.raised = TRUE]
        ELSE [st EXCEPT !.cmds = mp.cmds, !.response = mp.response]

\* lines 25-31; captured_piece.piece_type raises AttributeError on None
capture_step(st, b, move, answers) ==
    LET captured_piece == b.pieces[move.to_square]
        off_board_place ==
            off_board_square(captured_piece.piece_type, captured_piece.color, WHITE)
        mp == move_piece(st.cmds, answers, b.perspective, move.to_square,
                         off_board_place, st.response)
    IN  IF st.raised \/ ~Board_is_capture(b, move)
        THEN st
        ELSE IF captured_piece = None
        THEN [st EXCEPT !.raised = TRUE]
        ELSE [st EXCEPT !.cmds = mp.cmds, !.response = mp.response]

\* lines 32-39
en_passant_step(st, b, move, answers) ==
    LET captured_square == en_passant_captured(move)
        captured_piece == b.pieces[captured_square]
        off_board_place ==
            off_board_square(captured_piece.piece_type, captured_piece.color, WHITE)
        mp == move_piece(st.cmds, answers, b.perspective, captured_square,
                         off_board_place, st.response)
    IN  IF st.raised \/ ~Board_is_en_passant(b, move)
        THEN st
        ELSE IF captured_piece = None
        THEN [st EXCEPT !.raised = TRUE]
        ELSE [st EXCEPT !.cmds = mp.cmds, !.response = mp.response]

\* a promotion_step that does not switch the origin to the promoted piece's slot
promotion_step_same_origin(st, b, move, answers) ==
    LET removed_piece == b.pieces[move.from_square]
        off_board_place_removed ==
            off_board_square(removed_piece.piece_type, removed_piece.color, WHITE)
        mp == move_piece(st.cmds, answers, b.perspective, st.from_square,
                         off_board_place_removed, st.response)
    IN  IF st.raised \/ move.promotion = NO_PROMOTION
        THEN st
        ELSE [st EXCEPT !.cmds = mp.cmds, !.response = mp.response]

\* lines 40-52
promotion_step(st, b, move, answers) ==
    LET removed_piece == b.pieces[move.from_square]
        off_board_place_removed ==
            off_board_square(removed_piece.piece_type, removed_piece.color, WHITE)
        off_board_place_promoted ==
            off_board_square(move.promotion, removed_piece.color, WHITE)
        mp == move_piece(st.cmds, answers, b.perspective, st.from_square,
                         off_board_place_removed, st.response)
    IN  IF st.raised \/ move.promotion = NO_PROMOTION
        THEN st
        ELSE IF removed_piece = None
        THEN [st EXCEPT !.raised = TRUE]
        ELSE [st EXCEPT !.cmds = mp.cmds, !.response = mp.response,
                        !.from_square = off_board_place_promoted]

\* line 54
final_step(st, b, move, answers) ==
    LET mp == move_piece(st.cmds, answers, b.perspective, st.from_square,
                         move.to_square, st.response)
    IN  IF st.raised THEN st ELSE [st EXCEPT !.cmds = mp.cmds, !.response = mp.response]

\* lines 9-56
reflect_move(b, move, answers) ==
    IF Board_is_castling(b, move)
    THEN LET rook_move == castle_rook_move(b, move)
             king == move_piece(<<>>, answers, b.perspective, move.from_square,
                                move.to_square, COMMAND_SUCCESS)
             rook == move_piece(king.cmds, answers, b.perspective, rook_move.from_square,
                                rook_move.to_square, king.response)
         IN  IF rook_move = NoMove
             THEN [cmds |-> <<>>, response |-> COMMAND_FAILURE, raised |-> FALSE]
             ELSE [cmds |-> rook.cmds, response |-> rook.response, raised |-> FALSE]
    ELSE LET st0 == [cmds |-> <<>>, response |-> COMMAND_SUCCESS, raised |-> FALSE,
                     from_square |-> move.from_square]
             st == final_step(
                       promotion_step(
                           en_passant_step(capture_step(st0, b, move, answers),
                                           b, move, answers),
                           b, move, answers),
                       b, move, answers)
         IN  [cmds |-> st.cmds, response |-> st.response, raised |-> st.raised]

(***************************************************************************)
(* SpecReflect: reflect_move on every legal move of the positions          *)
(***************************************************************************)
NotReflected == [called |-> FALSE, cmds |-> <<>>, response |-> COMMAND_SUCCESS,
                 raised |-> FALSE]

InitReflect ==
    /\ \E b \in Positions, perspective \in COLORS :
           rm_board = [pieces |-> b.pieces, turn |-> b.turn, ep_square |-> b.ep_square,
                       castling |-> b.castling, perspective |-> perspective]
    /\ rm_move \in LegalMoves(rm_board)
    /\ rm_kind = MoveKind(rm_board, rm_move)
    /\ rm_result = NotReflected
    /\ IdleCodec /\ IdleLink /\ IdleReset /\ IdleIdentify /\ IdleMove /\ IdleSlot /\ IdleGui

ReflectMove ==
    /\ ~rm_result.called
    /\ \E answers \in ANSWERS :
         LET r == reflect_move(rm_board, rm_move, answers)
         IN  rm_result' = [called |-> TRUE, cmds |-> r.cmds, response |-> r.response,
                           raised |-> r.raised]
    /\ UNCHANGED <<rm_board, rm_move, rm_kind>>
    /\ UNCHANGED <<codecVars, linkVars, resetVars, identifyVars, moveVars, slotVars, guiVars>>

NextReflect == ReflectMove
SpecReflect == InitReflect /\ [][NextReflect]_vars

Relocation(c) == <<c.from_square, c.to_square>>

\* C4: for a legal en passant capture reflect_move does not raise and issues, in
\* this order, the captured pawn (on to-8 or to+8 by travel direction) to its
\* off-board slot and then the capturing pawn from its origin to the destination,
\* the second only after the first succeeded; it returns Success when both succeed.
C4_EnPassantTwoRelocations ==
    (rm_result.called /\ rm_kind = "en_passant") =>
        LET cmds == rm_result.cmds
            mover == rm_board.pieces[rm_move.from_square]
            captured_square == rm_move.to_square - Forward(mover.color)
        IN  /\ ~rm_result.raised
            /\ Len(cmds) >= 1
            /\ cmds[1].from_square = captured_square
            /\ cmds[1].to_square \in
                   {off_board_square(PAWN, Opponent(mover.color), p) : p \in COLORS}
            /\ IF cmds[1].response = COMMAND_SUCCESS
               THEN /\ Len(cmds) = 2
                    /\ Relocation(cmds[2]) = <<rm_move.from_square, rm_move.to_square>>
                    /\ rm_result.response = cmds[2].response
               ELSE Len(cmds) = 1

\* C13: the off-board slot reflect_move uses for a piece is the one of the board's
\* perspective, off_board_square(type, color, perspective of the board): a piece
\* taken off the board goes to that slot, and a promoted piece comes from it.
C13_SlotFollowsPerspective ==
    (rm_result.called /\ ~rm_result.raised) =>
        \A i \in 1..Len(rm_result.cmds) :
            LET c == rm_result.cmds[i]
                mover == rm_board.pieces[rm_move.from_square]
            IN  /\ c.to_square \in SLOTS =>
                       c.to_square =
                           off_board_square(rm_board.pieces[c.from_square].piece_type,
                                            rm_board.pieces[c.from_square].color,
                                            rm_board.perspective)
                /\ c.from_square \in SLOTS =>
                       c.from_square =
                           off_board_square(rm_move.promotion, mover.color,
                                            rm_board.perspective)

C16_CastlingKingThenRook ==
    (rm_result.called /\ rm_kind = "castling") =>
        LET cmds == rm_result.cmds
            rook == CASE rm_move.to_square = 6 -> <<7, 5>>
                      [] rm_move.to_square = 2 -> <<0, 3>>
                      [] rm_move.to_square = 62 -> <<63, 61>>
                      [] rm_move.to_square = 58 -> <<56, 59>>
        IN  /\ ~rm_result.raised
            /\ Len(cmds) >= 1
            /\ Relocation(cmds[1]) = <<rm_move.from_square, rm_move.to_square>>
            /\ rm_board.pieces[cmds[1].from_square].piece_type = KING
            /\ IF cmds[1].response = COMMAND_SUCCESS
               THEN /\ Len(cmds) = 2
                    /\ Relocation(cmds[2]) = rook
                    /\ rm_result.response = cmds[2].response
               ELSE Len(cmds) = 1 /\ rm_result.response = COMMAND_FAILURE

\* Black castles queen-side: e8->c8, then a8->d8
C16_Witness ==
    /\ rm_result.called
    /\ rm_kind = "castling"
    /\ Len(rm_result.cmds) = 2
    /\ Relocation(rm_result.cmds[1]) = <<Sq(4, 7), C8>>
    /\ Relocation(rm_result.cmds[2]) = <<A8, D8>>
    /\ rm_result.response = COMMAND_SUCCESS

C10_FailureSkipsRemainingSteps ==
    rm_result.called =>
        \A i \in 1..Len(rm_result.cmds) :
            rm_result.cmds[i].response = COMMAND_FAILURE =>
                /\ i = Len(rm_result.cmds)
                /\ ~rm_result.raised
                /\ rm_result.response = COMMAND_FAILURE

\* a capturing promotion (three steps) whose second step fails: the third is skipped
C10_Witness ==
    /\ rm_result.called
    /\ rm_kind = "promotion_capture"
    /\ Len(rm_result.cmds) = 2
    /\ rm_result.cmds[1].response = COMMAND_SUCCESS
    /\ rm_result.cmds[2].response = COMMAND_FAILURE
    /\ rm_result.response = COMMAND_FAILURE

(***************************************************************************)
(* movement.py: identify_move(prev_board, current_board).  Of the current  *)
(* snapshot only piece_at is used, so it is the occupancy alone.  The      *)
(* return value None is NoMove.                                            *)
(***************************************************************************)
\* lines 92-103
dissapeared(prev, cur) ==
    Sorted({sq \in SQUARES : /\ prev.pieces[sq] # cur[sq]
                             /\ prev.pieces[sq] # None
                             /\ cur[sq] = None})
appeared(prev, cur) ==
    Sorted({sq \in SQUARES : /\ prev.pieces[sq] # cur[sq]
                             /\ ~(prev.pieces[sq] # None /\ cur[sq] = None)})

\* lines 106-127: one square vacated, one occupied
identify_simple(prev, cur, d, a) ==
    LET move == Move(d[1], a[1])
        promotion_piece == cur[move.to_square]
    IN  IF is_en_passant(prev, move) THEN NoMove
        ELSE IF Board_is_castling(prev, move) THEN NoMove
        ELSE IF /\ prev.pieces[move.from_square].piece_type = PAWN
                /\ square_rank(move.to_square) \in {0, 7}
        THEN IF \/ promotion_piece = None
                \/ prev.pieces[move.from_square].color # promotion_piece.color
             THEN NoMove
             ELSE PromotionMove(move.from_square, move.to_square,
                                promotion_piece.piece_type)
        ELSE move

\* lines 130-152: two squares vacated, two occupied
identify_castling(prev, cur, d0, a0) ==
    LET d == IF prev.pieces[d0[1]].piece_type # KING THEN <<d0[2], d0[1]>> ELSE d0
        a == IF cur[a0[1]].piece_type # KING THEN <<a0[2], a0[1]>> ELSE a0
        king_move == Move(d[1], a[1])
        rook_move == Move(d[2], a[2])
        color == prev.pieces[king_move.from_square].color
        expected_rook == Piece(ROOK, color)
    IN  IF ~Board_is_castling(prev, king_move) THEN NoMove
        ELSE IF \/ prev.pieces[rook_move.from_square] # expected_rook
                \/ cur[rook_move.to_square] # expected_rook
        THEN NoMove
        ELSE IF rook_move # castle_rook_move(prev, king_move) THEN NoMove
        ELSE king_move

\* lines 155-171: two squares vacated, one occupied
identify_en_passant(prev, cur, d, a) ==
    LET pawn_move_to == a[1]
        first == Board_is_en_passant(prev, Move(d[1], pawn_move_to))
        second == Board_is_en_passant(prev, Move(d[2], pawn_move_to))
        pawn_move_from == IF first THEN d[1] ELSE d[2]
        en_passant_square == IF first THEN d[2] ELSE d[1]
        move == Move(pawn_move_from, pawn_move_to)
    IN  IF ~first /\ ~second THEN NoMove
        ELSE IF en_passant_captured(move) # en_passant_square THEN NoMove
        ELSE move

\* an identify_move that takes the first vacated and the first occupied square of
\* any diff that has both
identify_move_any_shape(prev, cur) ==
    LET d == dissapeared(prev, cur)
        a == appeared(prev, cur)
    IN  IF Len(d) >= 1 /\ Len(a) >= 1 THEN Move(d[1], a[1]) ELSE NoMove

\* lines 86-173
identify_move(prev, cur) ==
    LET d == dissapeared(prev, cur)
        a == appeared(prev, cur)
    IN  IF Len(d) = 1 /\ Len(a) = 1 THEN identify_simple(prev, cur, d, a)
        ELSE IF Len(d) = 2 /\ Len(a) = 2 THEN identify_castling(prev, cur, d, a)
        ELSE IF Len(d) = 2 /\ Len(a) = 1 THEN identify_en_passant(prev, cur, d, a)
        ELSE NoMove

(***************************************************************************)
(* SpecIdentify: identify_move on a previous position and a current        *)
(* snapshot.  The snapshot is the previous occupancy after a legal move,   *)
(* or after up to MaxHandMoves pieces were lifted, dropped or added by     *)
(* hand.  made_move is the legal move that explains the snapshot, NoMove   *)
(* when there is none.                                                     *)
(***************************************************************************)
MaxHandMoves == 2
OFF_BOARD == NO_SQUARE
\* where a hand puts a piece down
DropSquares(b) == {D1, F1, G1, Sq(1, 7)} \cup ({b.ep_square} \cap SQUARES)
\* pieces a hand may add to the board
BoxPieces == {Piece(QUEEN, WHITE)}

\* the legal moves of b that lead to the occupancy cur
\* (a move vacates its origin and changes its destination)
Explaining(b, cur) ==
    {m \in {PromotionMove(f, t, pr) :
                f \in {sq \in SQUARES : b.pieces[sq].color = b.turn /\ cur[sq] = None},
                t \in {sq \in SQUARES : cur[sq] # None /\ cur[sq] # b.pieces[sq]},
                pr \in {NO_PROMOTION, QUEEN, ROOK, BISHOP, KNIGHT}} :
        PseudoLegal(b, m) /\ Push(b, m) = cur /\ Legal(b, m)}
Explained(b, cur) ==
    IF Explaining(b, cur) = {} THEN NoMove ELSE CHOOSE m \in Explaining(b, cur) : TRUE

InitIdentify ==
    /\ prev_board \in Positions
    /\ current_board = prev_board.pieces
    /\ made_move = NoMove
    /\ hand_moves = 0
    /\ id_pc = "snapshot"
    /\ id_result = NoMove
    /\ IdleCodec /\ IdleLink /\ IdleReset /\ IdleReflect /\ IdleMove /\ IdleSlot /\ IdleGui

\* a legal move is played on the board
PlayMove ==
    /\ id_pc = "snapshot"
    /\ \E m \in LegalMoves(prev_board) :
         /\ current_board' = Push(prev_board, m)
         /\ made_move' = m
    /\ id_pc' = "played"
    /\ UNCHANGED <<prev_board, hand_moves, id_result>>
    /\ UNCHANGED <<codecVars, linkVars, resetVars, reflectVars, moveVars, slotVars, guiVars>>

\* a piece is lifted and dropped on a square or taken off the board
HandMovesPiece ==
    /\ id_pc \in {"snapshot", "disturbed"}
    /\ hand_moves < MaxHandMoves
    /\ \E f \in {sq \in SQUARES : current_board[sq] # None} :
       \E t \in (DropSquares(prev_board) \cup {OFF_BOARD}) \ {f} :
         LET lifted == [current_board EXCEPT ![f] = None]
         IN  current_board' = IF t = OFF_BOARD THEN lifted
                              ELSE [lifted EXCEPT ![t] = current_board[f]]
    /\ made_move' = Explained(prev_board, current_board')
    /\ hand_moves' = hand_moves + 1
    /\ id_pc' = "disturbed"
    /\ UNCHANGED <<prev_board, id_result>>
    /\ UNCHANGED <<codecVars, linkVars, resetVars, reflectVars, moveVars, slotVars, guiVars>>

\* a piece from the box is put on the board
HandAddsPiece ==
    /\ id_pc \in {"snapshot", "disturbed"}
    /\ hand_moves < MaxHandMoves
    /\ \E p \in BoxPieces, t \in DropSquares(prev_board) :
         current_board' = [current_board EXCEPT ![t] = p]
    /\ made_move' = Explained(prev_board, current_board')
    /\ hand_moves' = hand_moves + 1
    /\ id_pc' = "disturbed"
    /\ UNCHANGED <<prev_board, id_result>>
    /\ UNCHANGED <<codecVars, linkVars, resetVars, reflectVars, moveVars, slotVars, guiVars>>

IdentifyMove ==
    /\ id_pc \in {"snapshot", "played", "disturbed"}
    /\ id_result' = identify_move(prev_board, current_board)
    /\ id_pc' = "identified"
    /\ UNCHANGED <<prev_board, current_board, made_move, hand_moves>>
    /\ UNCHANGED <<codecVars, linkVars, resetVars, reflectVars, moveVars, slotVars, guiVars>>

NextIdentify == PlayMove \/ HandMovesPiece \/ HandAddsPiece \/ IdentifyMove
SpecIdentify == InitIdentify /\ [][NextIdentify]_vars

Vacated == dissapeared(prev_board, current_board)
Occupied == appeared(prev_board, current_board)
DiffShape == <<Len(Vacated), Len(Occupied)>>

\* C5: for every legal move m that turns board B into B', identify_move(B, B')
\* returns exactly m, promotion piece type included (normal move, capture, en
\* passant, the four castling cases, promotion with or without capture).
C5_LegalMoveIdentified ==
    (id_pc = "identified" /\ made_move # NoMove) => id_result = made_move

\* an en passant capture by Black has been played and identified
C5_Witness ==
    /\ id_pc = "identified"
    /\ made_move # NoMove
    /\ hand_moves = 0
    /\ MoveKind(prev_board, made_move) = "en_passant"
    /\ prev_board.turn = BLACK
    /\ id_result = made_move

\* C6 as stated: whenever no legal move on the previous snapshot explains the
\* occupancy diff, identify_move returns none.
C6_UnexplainedDiffReturnsNone ==
    (id_pc = "identified" /\ made_move = NoMove) => id_result = NoMove

\* C6: identify_move returns none whenever the diff is not one vacated and one
\* occupied square, two and two, or two vacated and one occupied.  On a diff of
\* one vacated square v and one occupied square o it returns none exactly when
\* the piece from v is a pawn and o is an empty square 7 or 9 away, or it is a
\* king and o is more than one file away or holds a rook of the side to move, or
\* it is a pawn, o is on the first or last rank and the piece now on o has the
\* other colour; otherwise it returns the move v to o, legal or not.
C6_NoneByShapeNotLegality ==
    id_pc = "identified" =>
        /\ DiffShape \notin {<<1, 1>>, <<2, 2>>, <<2, 1>>} => id_result = NoMove
        /\ DiffShape = <<1, 1>> =>
             LET v == Vacated[1]
                 o == Occupied[1]
                 p == prev_board.pieces[v]
                 rejected ==
                     \/ /\ p.piece_type = PAWN
                        /\ Abs(v - o) \in {7, 9}
                        /\ prev_board.pieces[o] = None
                     \/ /\ p.piece_type = KING
                        /\ \/ Abs((v % 8) - (o % 8)) > 1
                           \/ prev_board.pieces[o] = Piece(ROOK, prev_board.turn)
                     \/ /\ p.piece_type = PAWN
                        /\ o \div 8 \in {0, 7}
                        /\ current_board[o].color # p.color
             IN  IF rejected THEN id_result = NoMove
                 ELSE /\ id_result.from_square = v
                      /\ id_result.to_square = o

\* a rook lifted over its own king: no legal move explains it, a move is returned
C6_Witness ==
    /\ id_pc = "identified"
    /\ made_move = NoMove
    /\ DiffShape = <<1, 1>>
    /\ prev_board.pieces[Vacated[1]].piece_type = ROOK
    /\ id_result = Move(Vacated[1], Occupied[1])

(***************************************************************************)
(* SpecMove: one move_piece call on a board with the corner squares, a     *)
(* neighbour and two off-board slots.                                      *)
(***************************************************************************)
MOVE_SQUARES == {A1, A1 + 1, H8}
MOVE_SLOTS == {Min(SLOTS), -1}
NotMoved == [called |-> FALSE, cmds |-> <<>>, response |-> COMMAND_SUCCESS]

InitMove ==
    /\ mv_board \in [occ : [MOVE_SQUARES -> {None, Piece(PAWN, WHITE)}],
                     offsets : [MOVE_SQUARES -> {SQUARE_CENTER, Displaced}],
                     perspective : COLORS]
    /\ mv_args \in [from_square : MOVE_SQUARES \cup MOVE_SLOTS,
                    to_square : MOVE_SQUARES \cup MOVE_SLOTS,
                    prev_response : RESPONSES,
                    before : {mv_board}]
    /\ mv_result = NotMoved
    /\ IdleCodec /\ IdleLink /\ IdleReset /\ IdleReflect /\ IdleIdentify /\ IdleSlot /\ IdleGui

MovePiece ==
    /\ ~mv_result.called
    /\ \E answer \in RESPONSES :
         LET r == move_piece(<<>>, <<answer>>, mv_board.perspective, mv_args.from_square,
                             mv_args.to_square, mv_args.prev_response)
         IN  /\ mv_result' = [called |-> TRUE, cmds |-> r.cmds, response |-> r.response]
             /\ mv_board' = [mv_board EXCEPT !.offsets =
                                move_piece_offsets(mv_board.offsets, mv_args.from_square,
                                                   mv_args.to_square, mv_args.prev_response,
                                                   r.response)]
    /\ UNCHANGED mv_args
    /\ UNCHANGED <<codecVars, linkVars, resetVars, reflectVars, identifyVars, slotVars, guiVars>>

NextMove == MovePiece
SpecMove == InitMove /\ [][NextMove]_vars

\* C11: move_piece never changes the occupancy (nor the perspective); when it
\* returns Failure the offset table is as before; when it returns Success the
\* offset of each endpoint that is a real square (0..63) is centred and the offsets
\* of all other squares are as before.
C11_RelocateFrame ==
    mv_result.called =>
        /\ mv_board.occ = mv_args.before.occ
        /\ mv_board.perspective = mv_args.before.perspective
        /\ mv_result.response = COMMAND_FAILURE =>
               mv_board.offsets = mv_args.before.offsets
        /\ mv_result.response = COMMAND_SUCCESS =>
               \A sq \in MOVE_SQUARES :
                   mv_board.offsets[sq] =
                       IF sq \in {mv_args.from_square, mv_args.to_square}
                       THEN SQUARE_CENTER
                       ELSE mv_args.before.offsets[sq]

\* a displaced piece was taken from h8 to a slot: h8 is centred, a1 stays displaced
C11_Witness ==
    /\ mv_result.called
    /\ mv_result.response = COMMAND_SUCCESS
    /\ mv_args.from_square = H8
    /\ mv_args.to_square \in MOVE_SLOTS
    /\ mv_args.before.offsets[H8] = Displaced
    /\ mv_board.offsets[H8] = SQUARE_CENTER
    /\ mv_board.offsets[A1] = Displaced

(***************************************************************************)
(* SpecSlot: off_board_square on two pieces under one perspective          *)
(***************************************************************************)
NoSlots == <<>>

InitSlot ==
    /\ s_args \in [first : PIECES, second : PIECES, perspective : COLORS]
    /\ s_slots = NoSlots
    /\ IdleCodec /\ IdleLink /\ IdleReset /\ IdleReflect /\ IdleIdentify /\ IdleMove /\ IdleGui

OffBoardSquare ==
    /\ s_slots = NoSlots
    /\ s_slots' = <<off_board_square(s_args.first.piece_type, s_args.first.color,
                                     s_args.perspective),
                    off_board_square(s_args.second.piece_type, s_args.second.color,
                                     s_args.perspective),
                    off_board_square(s_args.first.piece_type, s_args.first.color, WHITE)>>
    /\ UNCHANGED s_args
    /\ UNCHANGED <<codecVars, linkVars, resetVars, reflectVars, identifyVars, moveVars, guiVars>>

NextSlot == OffBoardSquare
SpecSlot == InitSlot /\ [][NextSlot]_vars

\* C14: for each perspective off_board_square maps the 12 (piece type, color)
\* pairs one-to-one onto the slots -1..-12 (every result is a slot, two different
\* pairs get different slots, so all 12 slots are used), and the perspective-black
\* result is the perspective-white result with the two groups of six swapped
\* (white result - 6 if it is in -1..-6, else + 6).
C14_SlotsBijective ==
    s_slots # NoSlots =>
        /\ s_slots[1] \in (-12)..(-1)
        /\ s_slots[1] = s_slots[2] => s_args.first = s_args.second
        /\ s_args.perspective = WHITE => s_slots[1] = s_slots[3]
        /\ s_args.perspective = BLACK =>
               s_slots[1] = IF s_slots[3] \in (-6)..(-1) THEN s_slots[3] - 6
                            ELSE s_slots[3] + 6

\* the black pawn under perspective black: slot -12 becomes -6
C14_Witness ==
    /\ s_slots # NoSlots
    /\ s_args.perspective = BLACK
    /\ s_args.first = Piece(PAWN, BLACK)
    /\ s_args.second # s_args.first
    /\ s_slots[3] = -12
    /\ s_slots[1] = -6

(***************************************************************************)
(* gui.py: the screens, the engine thread started by game_screen and the   *)
(* _stop_game worker that chess_engine_thread starts and joins.            *)
(* game_thread, game_running and game_stopped are module globals shared by *)
(* all threads. A program counter names the line a thread executes next.   *)
(***************************************************************************)
MaxGames == 2
ENGINES == 1..MaxGames
LEVELS == {2, 4, 6, 10}
NoThread == <<>>

\* one step of _stop_game (lines 14-29) on the globals it reads and writes
stop_game_worker(pc, thread, running, stopped) ==
    CASE pc = "line17" ->       \* game_running.set()
            [pc |-> "line18", thread |-> thread, running |-> TRUE, stopped |-> stopped]
      [] pc = "line18" ->       \* if not game_thread: return
            [pc |-> IF thread = NoThread THEN "returned" ELSE "line21",
             thread |-> thread, running |-> running, stopped |-> stopped]
      [] pc = "line21" ->       \* while game_thread is not None or not game_stopped.is_set(): pass
            [pc |-> IF thread # NoThread \/ ~stopped THEN "line21" ELSE "line25",
             thread |-> thread, running |-> running, stopped |-> stopped]
      [] pc = "line25" ->       \* game_thread = None
            [pc |-> "line26", thread |-> NoThread, running |-> running, stopped |-> stopped]
      [] pc = "line26" ->       \* game_running.clear()
            [pc |-> "line27", thread |-> thread, running |-> FALSE, stopped |-> stopped]
      [] pc = "line27" ->       \* game_stopped.clear()
            [pc |-> "returned", thread |-> thread, running |-> running, stopped |-> FALSE]
      [] OTHER ->
            [pc |-> pc, thread |-> thread, running |-> running, stopped |-> stopped]

\* one step of chess_engine_thread (lines 152-173); `over` is whether
\* game.check_game_over() reports the end of the game in the loop body
chess_engine_thread(pc, worker, running, stopped, over) ==
    CASE pc = "line155" ->      \* stop_game(): the worker thread is started
            [pc |-> "join155", worker |-> "line17", stopped |-> stopped]
      [] pc = "join155" ->      \* .join(): blocks until the worker has returned
            [pc |-> IF worker = "returned" THEN "line157" ELSE "join155",
             worker |-> worker, stopped |-> stopped]
      [] pc = "line157" ->      \* while game_running.is_set()
            [pc |-> IF running THEN "line158" ELSE "line172",
             worker |-> worker, stopped |-> stopped]
      [] pc = "line158" ->      \* the loop body: break when the game is over
            [pc |-> IF over THEN "line172" ELSE "line157",
             worker |-> worker, stopped |-> stopped]
      [] pc = "line172" ->      \* game_stopped.set()
            [pc |-> "line173", worker |-> worker, stopped |-> TRUE]
      [] pc = "line173" ->      \* stop_game()
            [pc |-> "join173", worker |-> "line17", stopped |-> stopped]
      [] pc = "join173" ->      \* .join()
            [pc |-> IF worker = "returned" THEN "finished" ELSE "join173",
             worker |-> worker, stopped |-> stopped]
      [] OTHER ->
            [pc |-> pc, worker |-> worker, stopped |-> stopped]

\* gui_main: nothing chosen, no thread, both events clear, the level screen shown
InitGui ==
    /\ gui_screen = "level"
    /\ game_depth = <<>>
    /\ game_perspective = <<>>
    /\ game_thread = NoThread
    /\ game_running = FALSE
    /\ game_stopped = FALSE
    /\ engine_pc = [i \in ENGINES |-> "unborn"]
    /\ worker_pc = [i \in ENGINES |-> "unborn"]
    /\ IdleCodec /\ IdleLink /\ IdleReset /\ IdleReflect /\ IdleIdentify /\ IdleMove
    /\ IdleSlot

\* a level button: select_level(level_value)
SelectLevel ==
    /\ gui_screen = "level"
    /\ \E level_value \in LEVELS : game_depth' = <<level_value>>
    /\ gui_screen' = "color"
    /\ UNCHANGED <<game_perspective, game_thread, game_running, game_stopped,
                   engine_pc, worker_pc>>
    /\ UNCHANGED <<codecVars, linkVars, resetVars, reflectVars, identifyVars, moveVars,
                   slotVars>>

\* a colour button: assign_color(selected_color), which ends in start_button()
AssignColor ==
    /\ gui_screen = "color"
    /\ \E selected_color \in COLORS : game_perspective' = <<selected_color>>
    /\ gui_screen' = "start"
    /\ UNCHANGED <<game_depth, game_thread, game_running, game_stopped,
                   engine_pc, worker_pc>>
    /\ UNCHANGED <<codecVars, linkVars, resetVars, reflectVars, identifyVars, moveVars,
                   slotVars>>

\* the start button: game_screen(root) assigns game_thread, then starts the thread
GameScreen ==
    /\ gui_screen = "start"
    /\ \E i \in ENGINES :
         /\ engine_pc[i] = "unborn"
         /\ \A j \in ENGINES : j < i => engine_pc[j] # "unborn"
         /\ game_thread' = <<i>>
         /\ engine_pc' = [engine_pc EXCEPT ![i] = "line155"]
    /\ gui_screen' = "game"
    /\ UNCHANGED <<game_depth, game_perspective, game_running, game_stopped, worker_pc>>
    /\ UNCHANGED <<codecVars, linkVars, resetVars, reflectVars, identifyVars, moveVars,
                   slotVars>>

\* the resign button: resign_button_commands() shows the game-over screen
ResignButton ==
    /\ gui_screen = "game"
    /\ gui_screen' = "over"
    /\ UNCHANGED <<game_depth, game_perspective, game_thread, game_running,
                   game_stopped, engine_pc, worker_pc>>
    /\ UNCHANGED <<codecVars, linkVars, resetVars, reflectVars, identifyVars, moveVars,
                   slotVars>>

\* the back button of the game-over screen: level_screen()
BackButton ==
    /\ gui_screen = "over"
    /\ gui_screen' = "level"
    /\ UNCHANGED <<game_depth, game_perspective, game_thread, game_running,
                   game_stopped, engine_pc, worker_pc>>
    /\ UNCHANGED <<codecVars, linkVars, resetVars, reflectVars, identifyVars, moveVars,
                   slotVars>>

\* engine thread i executes its next line
EngineStep(i) ==
    /\ engine_pc[i] \notin {"unborn", "finished"}
    /\ \E over \in BOOLEAN :
         LET r == chess_engine_thread(engine_pc[i], worker_pc[i], game_running,
                                      game_stopped, over)
         IN  /\ engine_pc' = [engine_pc EXCEPT ![i] = r.pc]
             /\ worker_pc' = [worker_pc EXCEPT ![i] = r.worker]
             /\ game_stopped' = r.stopped
    /\ UNCHANGED <<gui_screen, game_depth, game_perspective, game_thread, game_running>>
    /\ UNCHANGED <<codecVars, linkVars, resetVars, reflectVars, identifyVars, moveVars,
                   slotVars>>

\* the worker started by engine thread i executes its next line
WorkerStep(i) ==
    /\ worker_pc[i] \notin {"unborn", "returned"}
    /\ LET r == stop_game_worker(worker_pc[i], game_thread, game_running, game_stopped)
       IN  /\ worker_pc' = [worker_pc EXCEPT ![i] = r.pc]
           /\ game_thread' = r.thread
           /\ game_running' = r.running
           /\ game_stopped' = r.stopped
    /\ UNCHANGED <<gui_screen, game_depth, game_perspective, engine_pc>>
    /\ UNCHANGED <<codecVars, linkVars, resetVars, reflectVars, identifyVars, moveVars,
                   slotVars>>

NextGui ==
    \/ SelectLevel \/ AssignColor \/ GameScreen \/ ResignButton \/ BackButton
    \/ \E i \in ENGINES : EngineStep(i)
    \/ \E i \in ENGINES : WorkerStep(i)
SpecGui == InitGui /\ [][NextGui]_vars

\* every started thread that can run is scheduled again and again
SpecGuiLive ==
    SpecGui /\ \A i \in ENGINES : WF_vars(EngineStep(i)) /\ WF_vars(WorkerStep(i))

\* C26: after game_screen has started an engine thread, the initial
\* stop_game().join() of chess_engine_thread eventually returns and the thread
\* reaches its game loop (line 157): the _stop_game worker does not wait forever
\* at line 21 for game_thread to become None.
C26_EngineReachesLoop ==
    \A i \in ENGINES : (engine_pc[i] = "line155") ~> (engine_pc[i] = "line157")

====
